---------------------------- MODULE Spec2Model ----------------------------
(***************************************************************************)
(* A model of the two utilities of azure-iot-library:                      *)
(*   - FileConfiguration (src/configuration/src/fileConfiguration.ts):     *)
(*     JSON configuration loaded from a local file or a blob, re-read on   *)
(*     file-change events;                                                 *)
(*   - hal Response (src/hal/src/response.ts): relation resolution and     *)
(*     the link / embed / docs composition of a HAL response tree.         *)
(* Four specifications share the variables: SpecConfig, SpecResolve,       *)
(* SpecHal and SpecResponse (SpecHal with json and filter). Each leaves    *)
(* the other components' variables untouched.                              *)
(***************************************************************************)
EXTENDS Naturals, Sequences, FiniteSets, TLC

VARIABLES
    \* ---- FileConfiguration
    cfgPc,        \* position of initialize(): idle, access, load, blob, resolved, rejected
    disk,         \* the local file: [exists, readable, text]
    fileConfig,   \* FileConfiguration.fileConfig
    watching,     \* the chokidar watcher is registered
    dirty,        \* a modification the watcher has not yet reported
    reads,        \* re-reads in flight, in the order their events were delivered
    cfgLog,       \* what logger() was called with
    unhandled,    \* an error escaped the change handler
    nWrites,      \* file modifications so far
    nEvents,      \* change events delivered so far
    lastGood,     \* the latest event whose read content parsed: [seq, text]
    cfgLast,      \* the last step of initialize() or of the change handler
    \* ---- Response.resolve
    rIn,          \* the arguments of one resolve() call
    rOut,         \* what it returned
    rPc,          \* args, done
    \* ---- the HAL response tree
    heap,         \* the resources created so far, by identity
    halLog,       \* console.error lines of unresolvableRel
    nOps,         \* link / embed / docs / filter / json calls made so far
    halLast,      \* the last call: its arguments, result and the state before it
    wire          \* the Express response: the calls made on it, its type and body

cfgVars == <<cfgPc, disk, fileConfig, watching, dirty, reads, cfgLog, unhandled,
             nWrites, nEvents, lastGood, cfgLast>>
resVars == <<rIn, rOut, rPc>>
halVars == <<heap, halLog, nOps, halLast, wire>>
vars == <<cfgVars, resVars, halVars>>

\* Object.assign({}, a, b): the keys of both, b's value where both have the key.
Assign(a, b) ==
    [k \in DOMAIN a \cup DOMAIN b |-> IF k \in DOMAIN b THEN b[k] ELSE a[k]]

EmptyMap == [k \in {} |-> ""]

(***************************************************************************)
(* JSON values and JSON.parse                                              *)
(***************************************************************************)
Null == [t |-> "null"]
JNum(n) == [t |-> "num", n |-> n]
JStr(s) == [t |-> "str", s |-> s]
JObj(m) == [t |-> "obj", m |-> m]

\* A file's text is its sequence of JSON tokens.
NumTokens == {"1", "2"}
StrTokens == {"\"a\"", "\"b\"", "\"x\""}

NumOf(tok) == CASE tok = "1" -> 1 [] tok = "2" -> 2

Unquote(tok) == CASE tok = "\"a\"" -> "a" [] tok = "\"b\"" -> "b" [] tok = "\"x\"" -> "x"

ParseFail == [ok |-> FALSE, val |-> Null, rest |-> <<>>]

RECURSIVE ParseValue(_), ParseMembers(_, _)
\* value := number | string | "{" "}" | "{" members "}"
ParseValue(toks) ==
    IF toks = <<>> THEN ParseFail
    ELSE LET h == Head(toks) IN
         IF h \in NumTokens
           THEN [ok |-> TRUE, val |-> JNum(NumOf(h)), rest |-> Tail(toks)]
         ELSE IF h \in StrTokens
           THEN [ok |-> TRUE, val |-> JStr(Unquote(h)), rest |-> Tail(toks)]
         ELSE IF h = "{"
           THEN IF Len(toks) >= 2 /\ toks[2] = "}"
                  THEN [ok |-> TRUE, val |-> JObj(EmptyMap),
                        rest |-> SubSeq(toks, 3, Len(toks))]
                  ELSE ParseMembers(Tail(toks), EmptyMap)
         ELSE ParseFail

\* members := string ":" value ( "," members )? ; a repeated key keeps the last value
ParseMembers(toks, acc) ==
    IF Len(toks) < 3 THEN ParseFail
    ELSE IF toks[1] \notin StrTokens \/ toks[2] # ":" THEN ParseFail
    ELSE LET v == ParseValue(SubSeq(toks, 3, Len(toks))) IN
         IF ~v.ok \/ v.rest = <<>> THEN ParseFail
         ELSE LET acc2 == Assign(acc, Unquote(toks[1]) :> v.val) IN
              IF Head(v.rest) = "}"
                THEN [ok |-> TRUE, val |-> JObj(acc2), rest |-> Tail(v.rest)]
              ELSE IF Head(v.rest) = ","
                THEN ParseMembers(Tail(v.rest), acc2)
              ELSE ParseFail

\* JSON.parse(text): the value, or a SyntaxError (ok = FALSE) unless the whole text is one value
JSONparse(text) ==
    LET r == ParseValue(text) IN
    IF r.ok /\ r.rest = <<>> THEN [ok |-> TRUE, val |-> r.val]
                             ELSE [ok |-> FALSE, val |-> Null]

\* The file and blob contents the model draws from: three that parse, two that do not.
TextAB1 == <<"{", "\"a\"", ":", "{", "\"b\"", ":", "1", "}", "}">>
TextA2 == <<"{", "\"a\"", ":", "2", "}">>
TextBX == <<"{", "\"b\"", ":", "\"x\"", ",", "\"a\"", ":", "{", "}", "}">>
TextTruncated == <<"{", "\"a\"", ":">>
TextTrailingComma == <<"{", "\"a\"", ":", "1", ",", "}">>

ValidTexts == {TextAB1, TextA2, TextBX}
InvalidTexts == {TextTruncated, TextTrailingComma}
Texts == ValidTexts \cup InvalidTexts

\* The key paths get() is asked for: a single key is a path of length one.
KeyPaths == {<<"a">>, <<"b">>, <<"a", "b">>, <<"x">>, <<"a", "x">>}

RECURSIVE getVal(_, _)
\* getVal(key, config): the value at the key path, null when a segment is missing
getVal(key, config) ==
    IF key = <<>> THEN config
    ELSE IF config.t # "obj" THEN Null
    ELSE IF Head(key) \notin DOMAIN config.m THEN Null
    ELSE getVal(Tail(key), config.m[Head(key)])

\* FileConfiguration.get
Get(key) == getVal(key, fileConfig)


(***************************************************************************)
(* FileConfiguration                                                       *)
(***************************************************************************)
\* File modifications the environment makes in one run.
MaxWrites == 3

NoFile == [exists |-> FALSE, readable |-> FALSE, text |-> <<>>]
File(text, readable) == [exists |-> TRUE, readable |-> readable, text |-> text]

EmptyConfig == JObj(EmptyMap)

\* fs.readFile as loadFile sees it: the text, or an error that loadFile rethrows
loadFile(d) ==
    IF d.exists /\ d.readable THEN [err |-> FALSE, text |-> d.text]
                              ELSE [err |-> TRUE, text |-> <<>>]

checkFileExistenceAlways(d) == TRUE

\* fs.access(F_OK) as checkFileExistence sees it
checkFileExistence(d) == d.exists

\* The try block of the change handler succeeded: the read and the parse both did.
ReloadOk(got) == ~got.err /\ JSONparse(got.text).ok

ReloadConfigClearsOnFailure(cfg, got) ==
    IF ReloadOk(got) THEN JSONparse(got.text).val ELSE EmptyConfig

ReloadConfigMerges(cfg, got) ==
    IF ReloadOk(got)
      THEN LET new == JSONparse(got.text).val IN
           IF cfg.t = "obj" /\ new.t = "obj" THEN JObj(Assign(cfg.m, new.m)) ELSE new
      ELSE cfg

\* this.fileConfig after the change handler's try / catch
ReloadConfig(cfg, got) ==
    IF ReloadOk(got) THEN JSONparse(got.text).val ELSE cfg

CfgStep(op, got) ==
    [op |-> op, before |-> fileConfig, got |-> got, logLen |-> Len(cfgLog)]

NoRead == [err |-> TRUE, text |-> <<>>]

CfgInit ==
    /\ cfgPc = "idle"
    /\ disk \in {NoFile} \cup {File(t, TRUE) : t \in Texts}
    /\ fileConfig = EmptyConfig
    /\ watching = FALSE
    /\ dirty = FALSE
    /\ reads = <<>>
    /\ cfgLog = <<>>
    /\ unhandled = FALSE
    /\ nWrites = 0
    /\ nEvents = 0
    /\ lastGood = [seq |-> 0, text |-> <<>>]
    /\ cfgLast = [op |-> "none", before |-> EmptyConfig, got |-> NoRead, logLen |-> 0]

\* initialize(configFilename, storageConnectionString): up to its first await
Initialize(blob) ==
    /\ cfgPc = "idle"
    /\ cfgPc' = IF blob THEN "blob" ELSE "access"
    /\ cfgLast' = CfgStep("initialize", NoRead)
    /\ UNCHANGED <<disk, fileConfig, watching, dirty, reads, cfgLog, unhandled,
                   nWrites, nEvents, lastGood,
                   resVars, halVars>>

InitializeBlobWatches(got) ==
    /\ cfgPc = "blob"
    /\ IF ~got.err /\ JSONparse(got.text).ok
         THEN /\ fileConfig' = JSONparse(got.text).val
              /\ cfgPc' = "resolved"
         ELSE /\ fileConfig' = fileConfig
              /\ cfgPc' = "rejected"
    /\ watching' = TRUE
    /\ cfgLast' = CfgStep("blob", got)
    /\ UNCHANGED <<disk, dirty, reads, cfgLog, unhandled,
                   nWrites, nEvents, lastGood,
                   resVars, halVars>>

\* the blob branch after getBlobToText called back: an error, or the blob's text
InitializeBlob(got) ==
    /\ cfgPc = "blob"
    /\ IF ~got.err /\ JSONparse(got.text).ok
         THEN /\ fileConfig' = JSONparse(got.text).val
              /\ cfgPc' = "resolved"
         ELSE /\ fileConfig' = fileConfig
              /\ cfgPc' = "rejected"
    /\ cfgLast' = CfgStep("blob", got)
    /\ UNCHANGED <<disk, watching, dirty, reads, cfgLog, unhandled,
                   nWrites, nEvents, lastGood,
                   resVars, halVars>>

\* the file branch after checkFileExistence settled; cfgLast.got.err records that
\* fs.access found no file
InitializeAccess ==
    /\ cfgPc = "access"
    /\ IF checkFileExistence(disk)
         THEN /\ cfgLog' = Append(cfgLog, "fileFound")
              /\ cfgPc' = "load"
         ELSE /\ cfgLog' = Append(cfgLog, "fileNotFound")
              /\ cfgPc' = "resolved"
    /\ cfgLast' = CfgStep("access", [err |-> ~disk.exists, text |-> <<>>])
    /\ UNCHANGED <<disk, fileConfig, watching, dirty, reads, unhandled,
                   nWrites, nEvents, lastGood,
                   resVars, halVars>>

InitializeLoadWatchesFirst ==
    /\ cfgPc = "load"
    /\ LET got == loadFile(disk) IN
       /\ IF ~got.err /\ JSONparse(got.text).ok
            THEN /\ fileConfig' = JSONparse(got.text).val
                 /\ cfgPc' = "resolved"
            ELSE /\ fileConfig' = fileConfig
                 /\ cfgPc' = "rejected"
       /\ watching' = TRUE
       /\ cfgLast' = CfgStep("load", got)
    /\ UNCHANGED <<disk, dirty, reads, cfgLog, unhandled, nWrites, nEvents, lastGood,
                   resVars, halVars>>

\* the file branch after loadFile settled: parse, assign, register the watcher
InitializeLoad ==
    /\ cfgPc = "load"
    /\ LET got == loadFile(disk) IN
       /\ IF ~got.err /\ JSONparse(got.text).ok
            THEN /\ fileConfig' = JSONparse(got.text).val
                 /\ watching' = TRUE
                 /\ cfgPc' = "resolved"
            ELSE /\ fileConfig' = fileConfig
                 /\ watching' = watching
                 /\ cfgPc' = "rejected"
       /\ cfgLast' = CfgStep("load", got)
    /\ UNCHANGED <<disk, dirty, reads, cfgLog, unhandled, nWrites, nEvents, lastGood,
                   resVars, halVars>>

\* The environment writes the file (and the write finishes).
FsWrite(text, readable) ==
    /\ nWrites < MaxWrites
    /\ disk' = File(text, readable)
    /\ dirty' = watching
    /\ nWrites' = nWrites + 1
    /\ UNCHANGED <<cfgPc, fileConfig, watching, reads, cfgLog, unhandled,
                   nEvents, lastGood, cfgLast,
                   resVars, halVars>>

\* The environment removes the file: chokidar reports no 'change' for it.
FsRemove ==
    /\ nWrites < MaxWrites
    /\ disk.exists
    /\ disk' = NoFile
    /\ nWrites' = nWrites + 1
    /\ UNCHANGED <<cfgPc, fileConfig, watching, dirty, reads, cfgLog, unhandled,
                   nEvents, lastGood, cfgLast,
                   resVars, halVars>>

\* watcher.on('change'): the handler runs up to its await, loadFile is issued
OnChange ==
    /\ watching
    /\ dirty
    /\ dirty' = FALSE
    /\ nEvents' = nEvents + 1
    /\ reads' = Append(reads, [seq |-> nEvents + 1, phase |-> "issued", got |-> NoRead])
    /\ UNCHANGED <<cfgPc, disk, fileConfig, watching, cfgLog, unhandled,
                   nWrites, lastGood, cfgLast,
                   resVars, halVars>>

\* fs.readFile of one re-read does its I/O: this is the content it will hand back
ReadFileIO(i) ==
    /\ i \in 1..Len(reads)
    /\ reads[i].phase = "issued"
    /\ LET got == loadFile(disk) IN
       /\ reads' = [reads EXCEPT ![i] = [@ EXCEPT !.phase = "read", !.got = got]]
       /\ lastGood' = IF ReloadOk(got) /\ reads[i].seq > lastGood.seq
                        THEN [seq |-> reads[i].seq, text |-> got.text]
                        ELSE lastGood
    /\ UNCHANGED <<cfgPc, disk, fileConfig, watching, dirty, cfgLog, unhandled,
                   nWrites, nEvents, cfgLast,
                   resVars, halVars>>

Without(s, i) == SubSeq(s, 1, i - 1) \o SubSeq(s, i + 1, Len(s))

\* the handler resumes after its await: JSON.parse and the assignment, or the catch
ReloadSettle(i) ==
    /\ i \in 1..Len(reads)
    /\ reads[i].phase = "read"
    /\ LET got == reads[i].got IN
       /\ fileConfig' = ReloadConfig(fileConfig, got)
       /\ cfgLog' = IF ReloadOk(got) THEN cfgLog ELSE Append(cfgLog, "fileReadingErr")
       /\ cfgLast' = CfgStep(IF ReloadOk(got) THEN "reloadOk" ELSE "reloadFail", got)
    /\ reads' = Without(reads, i)
    /\ UNCHANGED <<cfgPc, disk, watching, dirty, unhandled, nWrites, nEvents, lastGood,
                   resVars, halVars>>

CfgNext ==
    \/ \E blob \in BOOLEAN : Initialize(blob)
    \/ \E got \in {NoRead} \cup {[err |-> FALSE, text |-> t] : t \in Texts} :
          InitializeBlob(got)
    \/ InitializeAccess
    \/ InitializeLoad
    \/ \E t \in Texts, rd \in BOOLEAN : FsWrite(t, rd)
    \/ FsRemove
    \/ OnChange
    \/ \E i \in 1..Len(reads) : ReadFileIO(i)
    \/ \E i \in 1..Len(reads) : ReloadSettle(i)

\* The other components' variables at rest.
ResIdle == rIn = <<>> /\ rOut = <<>> /\ rPc = "off"
HalIdle == heap = <<>> /\ halLog = <<>> /\ nOps = 0 /\ halLast = <<>> /\ wire = <<>>

InitConfig == CfgInit /\ ResIdle /\ HalIdle

SpecConfig ==
    /\ InitConfig
    /\ [][CfgNext]_vars

(***************************************************************************)
(* FileConfiguration: the properties                                       *)
(***************************************************************************)
\* What each valid text decodes to, written out by hand.
Decoded(text) ==
    CASE text = TextAB1 -> JObj([a |-> JObj([b |-> JNum(1)])])
      [] text = TextA2 -> JObj([a |-> JNum(2)])
      [] text = TextBX -> JObj([a |-> JObj(EmptyMap), b |-> JStr("x")])

\* The last handler step was a re-read that failed: unreadable file or invalid JSON.
ReReadFailed ==
    /\ cfgLast.op \in {"reloadOk", "reloadFail"}
    /\ (cfgLast.got.err \/ cfgLast.got.text \in InvalidTexts)

\* The last handler step was a re-read that read valid JSON.
ReReadValid ==
    /\ cfgLast.op \in {"reloadOk", "reloadFail"}
    /\ ~cfgLast.got.err
    /\ cfgLast.got.text \in ValidTexts

\* C1: after a re-read that failed (the file could not be read, or its content is
\* not valid JSON) the configuration is what it was when the handler resumed: every
\* get(key) returns what it returned before, exactly one fileReadingErr line was
\* logged, no error escaped the handler and initialize stays resolved.
C1_FailedReReadKeepsConfig ==
    ReReadFailed =>
        /\ fileConfig = cfgLast.before
        /\ \A k \in KeyPaths : Get(k) = getVal(k, cfgLast.before)
        /\ Len(cfgLog) = cfgLast.logLen + 1
        /\ cfgLog[Len(cfgLog)] = "fileReadingErr"
        /\ ~unhandled
        /\ cfgPc = "resolved"

\* C1: a re-read of invalid JSON has failed while the configuration was not empty.
C1_Witness ==
    /\ ReReadFailed
    /\ ~cfgLast.got.err
    /\ cfgLast.got.text = TextTrailingComma
    /\ cfgLast.before = Decoded(TextAB1)

\* C2: after a re-read that read valid JSON, the configuration is the decoded new
\* content and nothing else: every get(key) returns the value at that key path in
\* the new content, and a key only the old content had reads as null. This lasts
\* until some re-read next settles.
C2_ValidReReadReplacesConfig ==
    ReReadValid =>
        /\ fileConfig = Decoded(cfgLast.got.text)
        /\ \A k \in KeyPaths : Get(k) = getVal(k, Decoded(cfgLast.got.text))
        /\ Len(cfgLog) = cfgLast.logLen

\* C2: a valid re-read replaced a configuration that had a key "b" by one without it.
C2_Witness ==
    /\ ReReadValid
    /\ getVal(<<"b">>, cfgLast.before) # Null
    /\ cfgLast.got.text = TextA2
    /\ Get(<<"b">>) = Null
    /\ Get(<<"a">>) = JNum(2)

\* C3: once every delivered change event has been handled, the configuration is the
\* parse of the content read for the latest event whose content was valid JSON: a
\* re-read started for an earlier event never overwrites the result of a later one.
C3_LatestReReadWins ==
    (reads = <<>> /\ lastGood.seq > 0) => fileConfig = JSONparse(lastGood.text).val

\* C3: no re-read starts while an earlier one is still in flight.
C3_NoOverlappingReReads == Len(reads) <= 1

(***************************************************************************)
(* The RelationLinker and Template collaborators                           *)
(*                                                                         *)
(* A relation and a string href are strings, "" the falsy one; a key an    *)
(* object does not define is a key the record does not have. An href that  *)
(* is a URL-component object sits under the key "hrefUrl" instead of       *)
(* "href": the two keys are the one JavaScript key, told apart by typeof.  *)
(***************************************************************************)
Servers == {"api", "admin"}
\* The empty server object {} that resolve hands to normalize.
NoServer == "{}"

\* LinkRelation.Self and Rel.Curies
Self == "self"
Curies == "curies"

\* Relations a caller names: "ghost" has no template anywhere, "part" has one
\* without an href beside one with, "" is the falsy one.
PlainRels == {"item", "list", "part", "ghost", "alt"}

HasStr(o, k) == k \in DOMAIN o /\ o[k] # ""
Has(o, k) == k \in DOMAIN o

\* Server.linker.getLinks(server, rel): the templates registered, in registration order
getLinks(server, rel) ==
    CASE server = "api" /\ rel = "item" ->
            << [href |-> "/item/:id", id |-> "id"],
               [href |-> "/item/:id/raw", params |-> [fmt |-> "raw"]] >>
      [] server = "api" /\ rel = "list" ->
            << [href |-> "/items", params |-> [id |-> "0", page |-> "1"],
                links |-> <<Self>>] >>
      [] server = "api" /\ rel = "part" ->
            << [params |-> [fmt |-> "raw"]], [href |-> "/part"] >>
      [] server = "admin" /\ rel = "item" ->
            << [href |-> "/admin/item/:id", id |-> "id"] >>
      [] OTHER -> << >>

\* Server.linker.getDocs(server, rel): {name, href}, or an object without a name
getDocs(server, rel) ==
    CASE server = "api" /\ rel \in {"api:item", "api:list", "api:part", "api:ghost"} ->
            [name |-> "api", href |-> "/docs/api/:rel"]
      [] server = "admin" /\ rel \in {"admin:item"} ->
            [name |-> "admin", href |-> "/docs/admin/:rel"]
      [] OTHER -> EmptyMap

\* Server.linker.normalize(server, rel): a plain relation gets the server's namespace
normalize(server, rel) ==
    IF server \in Servers /\ rel \in PlainRels THEN server \o ":" \o rel ELSE rel

\* Rel.stringify: relations are held as strings already
RelStringify(rel) == rel

\* Template.apply(href, params): the path params the href names, substituted
TemplateApply(href, params) ==
    CASE href = "/item/:id" /\ Has(params, "id") -> "/item/" \o params.id
      [] href = "/item/:id/raw" /\ Has(params, "id") -> "/item/" \o params.id \o "/raw"
      [] href = "/admin/item/:id" /\ Has(params, "id") -> "/admin/item/" \o params.id
      [] OTHER -> href

\* url.parse(href): the URL components of a path without a query
UrlParse(href) == [pathname |-> href, query |-> ""]

\* url.format of URL components
UrlFormat(u) == IF u.query = "" THEN u.pathname ELSE u.pathname \o "?" \o u.query

\* Template.link(resolved): the link object; its name is the resolved id
TemplateLink(resolved) ==
    [href |-> IF Has(resolved, "hrefUrl") THEN UrlFormat(resolved.hrefUrl)
              ELSE IF Has(resolved, "href") THEN TemplateApply(resolved.href, resolved.params)
              ELSE "",
     name |-> IF HasStr(resolved, "id") THEN resolved.id ELSE ""]

(***************************************************************************)
(* Response.resolve                                                        *)
(***************************************************************************)
\* Object.assign onto an object whose href is of the other type replaces it.
AssignHref(a, b) ==
    LET drop == IF Has(b, "hrefUrl") THEN {"href"}
                ELSE IF Has(b, "href") THEN {"hrefUrl"} ELSE {}
        a2 == [k \in DOMAIN a \ drop |-> a[k]]
    IN Assign(a2, b)

\* let base = { rel, params, links: [], server: overrides.server || server }
ResolveBase(server, rel, params, overrides) ==
    [rel |-> rel, params |-> params, links |-> << >>,
     server |-> IF HasStr(overrides, "server") THEN overrides.server ELSE server]

MergeTemplateWins(base, link, overrides) ==
    AssignHref(AssignHref(base, overrides), link)

\* Object.assign({}, base, link, overrides)
Merge(base, link, overrides) ==
    AssignHref(AssignHref(base, link), overrides)

\* if (!overrides.params) resolved.params = Object.assign({}, base.params, link.params)
MergeParams(resolved, base, link, overrides) ==
    IF ~Has(overrides, "params")
      THEN [resolved EXCEPT !.params =
              Assign(base.params, IF Has(link, "params") THEN link.params ELSE EmptyMap)]
      ELSE resolved

\* resolved.id = resolved.id && resolved.params[resolved.id]
ResolveId(resolved) ==
    IF ~HasStr(resolved, "id") THEN resolved
    ELSE IF Has(resolved.params, resolved.id)
           THEN [resolved EXCEPT !.id = resolved.params[resolved.id]]
           ELSE [k \in DOMAIN resolved \ {"id"} |-> resolved[k]]

ResolveRelAlwaysNamespaces(resolved, overrides) ==
    IF ~HasStr(resolved, "rel") THEN resolved
    ELSE [resolved EXCEPT !.rel =
            normalize(IF HasStr(resolved, "server") THEN resolved.server ELSE NoServer,
                      resolved.rel)]

\* resolved.rel = resolved.rel && normalize(overrides.rel ? {} : resolved.server || {}, resolved.rel)
ResolveRel(resolved, overrides) ==
    IF ~HasStr(resolved, "rel") THEN resolved
    ELSE [resolved EXCEPT !.rel =
            normalize(IF HasStr(overrides, "rel") THEN NoServer
                      ELSE IF HasStr(resolved, "server") THEN resolved.server
                      ELSE NoServer,
                      resolved.rel)]

\* if (overrides.href && typeof overrides.href === 'object') resolved.href = ...
ResolveHref(resolved, link, overrides) ==
    IF Has(overrides, "hrefUrl")
      THEN [resolved EXCEPT !.hrefUrl =
              Assign(UrlParse(TemplateApply(link.href, resolved.params)), overrides.hrefUrl)]
      ELSE resolved

\* the body of the map callback, for one template
ResolveOne(base, link, overrides) ==
    ResolveHref(
        ResolveRel(
            ResolveId(MergeParams(Merge(base, link, overrides), base, link, overrides)),
            overrides),
        link, overrides)

TemplatesDropPlaceholder(links) == links

\* links.length > 0 ? links : [{}]
Templates(links) == IF Len(links) > 0 THEN links ELSE << EmptyMap >>

\* Response.resolve(server, rel, params, overrides)
Resolve(server, rel, params, overrides) ==
    LET base == ResolveBase(server, rel, params, overrides)
        links == Templates(getLinks(base.server, base.rel))
    IN [i \in 1..Len(links) |-> ResolveOne(base, links[i], overrides)]

\* ---- the arguments one resolve() call is made with
Opt(k, S) == {EmptyMap} \cup {k :> v : v \in S}

ParamSets == {EmptyMap, [id |-> "7"], [id |-> "7", fmt |-> "json"]}

UrlPatches == {[query |-> "q=1"]}

\* Overrides: every combination of the keys an hal.Overrides may set.
AllOverrides ==
    { Assign(Assign(Assign(Assign(Assign(Assign(h, r), p), i), a), sv), l) :
        h \in Opt("href", {"/custom", ""}) \cup Opt("hrefUrl", UrlPatches),
        r \in Opt("rel", {"alt", "api:item", ""}),
        p \in Opt("params", {EmptyMap, [id |-> "8"]}),
        i \in Opt("id", {"id", "fmt"}),
        a \in Opt("array", {TRUE}),
        sv \in Opt("server", {"admin"}),
        l \in Opt("links", {<<Self>>}) }

\* The comment at lines 111-113: a URL-object href is spliced into an internally
\* resolved href, which is a string, so every template of the relation has an href.
ResolveArgsOk(server, rel, overrides) ==
    Has(overrides, "hrefUrl") =>
        LET sv == IF HasStr(overrides, "server") THEN overrides.server ELSE server
            ls == getLinks(sv, rel)
        IN Len(ls) > 0 /\ \A i \in 1..Len(ls) : Has(ls[i], "href")

ResInit ==
    /\ rPc = "args"
    /\ rOut = << >>
    /\ rIn \in { a \in [server : Servers, rel : PlainRels \cup {""},
                        params : ParamSets, overrides : AllOverrides] :
                   ResolveArgsOk(a.server, a.rel, a.overrides) }

\* One call of Response.resolve.
CallResolve ==
    /\ rPc = "args"
    /\ rOut' = Resolve(rIn.server, rIn.rel, rIn.params, rIn.overrides)
    /\ rPc' = "done"
    /\ UNCHANGED <<rIn, cfgVars, halVars>>

CfgIdle ==
    /\ cfgPc = "off" /\ disk = NoFile /\ fileConfig = EmptyConfig /\ watching = FALSE
    /\ dirty = FALSE /\ reads = <<>> /\ cfgLog = <<>> /\ unhandled = FALSE
    /\ nWrites = 0 /\ nEvents = 0 /\ lastGood = [seq |-> 0, text |-> <<>>]
    /\ cfgLast = [op |-> "none", before |-> EmptyConfig, got |-> NoRead, logLen |-> 0]

InitResolve == ResInit /\ CfgIdle /\ HalIdle

SpecResolve == InitResolve /\ [][CallResolve]_vars

(***************************************************************************)
(* Response.resolve: the properties                                        *)
(***************************************************************************)
\* The server the call resolves under, and what the linker has registered there.
CallServer ==
    IF HasStr(rIn.overrides, "server") THEN rIn.overrides.server ELSE rIn.server
Registered == getLinks(CallServer, rIn.rel)
NoHrefOverride == ~Has(rIn.overrides, "href") /\ ~Has(rIn.overrides, "hrefUrl")

\* C9: resolve returns one candidate per registered template, in registration order
\* (candidate i carries template i's href unless the overrides set one), and exactly
\* one candidate, with no href of a template, when nothing is registered; never none.
C9_OneCandidatePerTemplate ==
    rPc = "done" =>
        /\ Len(rOut) >= 1
        /\ Len(Registered) > 0 =>
              /\ Len(rOut) = Len(Registered)
              /\ NoHrefOverride =>
                    \A i \in 1..Len(rOut) :
                        /\ Has(rOut[i], "href") <=> Has(Registered[i], "href")
                        /\ Has(rOut[i], "href") => rOut[i].href = Registered[i].href
        /\ Len(Registered) = 0 =>
              /\ Len(rOut) = 1
              /\ NoHrefOverride => ~Has(rOut[1], "href")
              /\ ~Has(rIn.overrides, "params") => rOut[1].params = rIn.params

\* C9: a relation without templates resolved to the one override-only candidate.
C9_Witness ==
    /\ rPc = "done"
    /\ rIn.rel = "ghost"
    /\ Len(Registered) = 0
    /\ rIn.overrides = [href |-> "/custom"]
    /\ Len(rOut) = 1
    /\ rOut[1].href = "/custom"

\* The three sources of candidate i, written apart from the merge.
BaseOf == [rel |-> rIn.rel, params |-> rIn.params, links |-> << >>, server |-> CallServer]
TemplateOf(i) == IF Len(Registered) > 0 THEN Registered[i] ELSE EmptyMap
\* Which source a key's value comes from: overrides before template before base.
Source(i, k) ==
    IF Has(rIn.overrides, k) THEN rIn.overrides
    ELSE IF Has(TemplateOf(i), k) THEN TemplateOf(i)
    ELSE BaseOf

\* C10: in every candidate, a key set in overrides has the overrides' value, else a
\* key set in the template has the template's value, else the base's value (id is
\* that value looked up in the params, rel that value normalized); params are the
\* overrides' params verbatim when given, otherwise the union of the request's and
\* the template's params, the template's value on a shared key.
C10_Precedence ==
    rPc = "done" =>
        \A i \in 1..Len(rOut) :
            LET c == rOut[i]
                t == TemplateOf(i)
                tp == IF Has(t, "params") THEN t.params ELSE EmptyMap
            IN
            /\ \A k \in {"href", "array", "links", "server"} :
                  /\ Has(c, k) <=> (Has(Source(i, k), k) /\ ~(k = "href" /\ Has(rIn.overrides, "hrefUrl")))
                  /\ Has(c, k) => c[k] = Source(i, k)[k]
            /\ Has(c, "rel")
            /\ c.rel \in {Source(i, "rel").rel, normalize(c.server, Source(i, "rel").rel)}
            /\ Has(c, "id") =>
                  /\ Has(Source(i, "id"), "id")
                  /\ c.id \in {""} \cup {c.params[Source(i, "id").id]}
            /\ (Has(Source(i, "id"), "id") /\ Has(c.params, Source(i, "id").id)) => Has(c, "id")
            /\ IF Has(rIn.overrides, "params")
                 THEN c.params = rIn.overrides.params
                 ELSE /\ DOMAIN c.params = DOMAIN rIn.params \cup DOMAIN tp
                      /\ \A pk \in DOMAIN c.params :
                            c.params[pk] = IF pk \in DOMAIN tp THEN tp[pk] ELSE rIn.params[pk]

\* C10: an override href won over the template's, the template's links over the
\* base's, and the params are the union with the template's id winning.
C10_Witness ==
    /\ rPc = "done"
    /\ rIn.server = "api" /\ rIn.rel = "list"
    /\ rIn.params = [id |-> "7", fmt |-> "json"]
    /\ rIn.overrides = [href |-> "/custom"]
    /\ rOut[1].href = "/custom"
    /\ rOut[1].links = <<Self>>
    /\ rOut[1].params = [id |-> "0", fmt |-> "json", page |-> "1"]

(***************************************************************************)
(* The HAL response tree                                                   *)
(*                                                                         *)
(* heap[r] is the Response.Private of resource r together with its halson  *)
(* resource: server, params, data, links (_links), embeds (_embedded, the  *)
(* embedded resources by identity) and root. A slot of links or embeds is  *)
(* [arr, items]: one value (arr = FALSE, one item) or an array. Two fields *)
(* only record history: a slot's marked (an array-type candidate was       *)
(* inserted) and a resource's ph (embed returned it without embedding it). *)
(***************************************************************************)
\* link, embed, docs, filter and json calls made on one response.
MaxOps == 3

\* Rel.Param: the well-known rel parameter
RelParam == "rel"

NoSlots == [k \in {} |-> [arr |-> FALSE, marked |-> FALSE, items |-> << >>]]

\* halson addLink / addEmbed: the first value stands alone, a later one makes an array
AddTo(set, rel, v) ==
    IF rel \in DOMAIN set
      THEN [set EXCEPT ![rel] = [@ EXCEPT !.arr = TRUE, !.items = Append(@, v)]]
      ELSE Assign(set, rel :> [arr |-> FALSE, marked |-> FALSE, items |-> <<v>>])

\* History only: the candidate just inserted under rel asked for an array.
Mark(set, rel, flag) == [set EXCEPT ![rel] = [@ EXCEPT !.marked = @ \/ flag]]

ensureArrayAlways(set, rel, ensure) ==
    IF rel \in DOMAIN set /\ ~set[rel].arr
      THEN [set EXCEPT ![rel] = [@ EXCEPT !.arr = TRUE]]
      ELSE set

\* ensureArray(set, rel, ensure)
ensureArray(set, rel, ensure) ==
    IF ensure /\ rel \in DOMAIN set /\ ~set[rel].arr
      THEN [set EXCEPT ![rel] = [@ EXCEPT !.arr = TRUE]]
      ELSE set

IsArray(c) == Has(c, "array") /\ c.array
HrefDefined(c) == HasStr(c, "href") \/ Has(c, "hrefUrl")
ServerOf(c) == IF HasStr(c, "server") THEN c.server ELSE NoServer

\* halson getLink(Rel.Curies, link => link.name === name) on a resource
HasCurie(res, name) ==
    /\ Curies \in DOMAIN res.links
    /\ \E i \in 1..Len(res.links[Curies].items) : res.links[Curies].items[i].name = name

DocsOpOnSelf(st, r, name, href) ==
    LET h == st.heap
        params == [k \in DOMAIN h[r].params \ {RelParam} |-> h[r].params[k]]
    IN IF HasCurie(h[r], name) THEN st
       ELSE [st EXCEPT !.heap[r].links =
               AddTo(@, Curies, TemplateLink([href |-> href, id |-> name, params |-> params]))]

\* Response.prototype.docs(name, href) on resource r
DocsOp(st, r, name, href) ==
    LET h == st.heap
        root == h[r].root
        params == [k \in DOMAIN h[r].params \ {RelParam} |-> h[r].params[k]]
    IN IF HasCurie(h[root], name) THEN st
       ELSE [st EXCEPT !.heap[root].links =
               AddTo(@, Curies, TemplateLink([href |-> href, id |-> name, params |-> params]))]

\* Response.docs(response, resolved), the static one
StaticDocs(st, r, resolved) ==
    LET docs == getDocs(ServerOf(resolved), resolved.rel) IN
    IF HasStr(docs, "name") THEN DocsOp(st, r, docs.name, docs.href) ELSE st

\* unresolvableRel(res, rel): one console.error line
unresolvableRel(st, r, rel) ==
    [st EXCEPT !.log = Append(@, RelStringify(normalize(st.heap[r].server, rel)))]

\* the body of link()'s loop, for one resolved candidate
LinkStep(st, r, rel, c) ==
    IF HasStr(c, "rel") /\ HrefDefined(c)
      THEN LET str == RelStringify(c.rel)
               st1 == StaticDocs(st, r, c)
           IN [st1 EXCEPT !.heap[r].links =
                 ensureArray(Mark(AddTo(@, str, TemplateLink(c)), str, IsArray(c)),
                             str, IsArray(c))]
      ELSE unresolvableRel(st, r, rel)

RECURSIVE LinkLoopBreaks(_, _, _, _, _)
LinkLoopBreaks(st, r, rel, cands, i) ==
    IF i > Len(cands) THEN st
    ELSE IF HasStr(cands[i], "rel") /\ HrefDefined(cands[i])
      THEN LinkLoopBreaks(LinkStep(st, r, rel, cands[i]), r, rel, cands, i + 1)
      ELSE LinkStep(st, r, rel, cands[i])

RECURSIVE LinkLoop(_, _, _, _, _)
\* for (const resolved of Response.resolve(...)) in link()
LinkLoop(st, r, rel, cands, i) ==
    IF i > Len(cands) THEN st
    ELSE LinkLoop(LinkStep(st, r, rel, cands[i]), r, rel, cands, i + 1)

\* Response.prototype.link(rel, overrides) on resource r
LinkOp(st, r, rel, overrides) ==
    LinkLoop(st, r, rel,
             Resolve(st.heap[r].server, rel, st.heap[r].params, overrides), 1)

RECURSIVE InitLinks(_, _, _, _, _)
\* Response.initialize(response, resolved, template): the default links
InitLinks(st, r, resolved, template, i) ==
    IF ~Has(resolved, "links") \/ i > Len(resolved.links) THEN st
    ELSE LET link == resolved.links[i]
             self == IF template THEN TemplateLink(resolved)
                     ELSE [href |-> IF Has(resolved, "href") THEN resolved.href ELSE "",
                           name |-> ""]
             st1 == IF link = Self
                      THEN [st EXCEPT !.heap[r].links = AddTo(@, Self, self)]
                      ELSE LinkOp(st, r, link, EmptyMap)
         IN InitLinks(st1, r, resolved, template, i + 1)

ResourceOpOwnRoot(st, resolved, root, data) ==
    LET n == Len(st.heap) + 1
        res == [server |-> resolved.server, params |-> resolved.params, data |-> data,
                links |-> NoSlots, embeds |-> NoSlots, root |-> n, ph |-> FALSE]
        st1 == [st EXCEPT !.heap = Append(@, res)]
        st2 == InitLinks(st1, n, resolved, data # "", 1)
    IN [st2 EXCEPT !.ret = n]

\* Response.resource(resolved, root, data); root = 0 and data = "" when not given
ResourceOp(st, resolved, root, data) ==
    LET n == Len(st.heap) + 1
        res == [server |-> resolved.server, params |-> resolved.params, data |-> data,
                links |-> NoSlots, embeds |-> NoSlots,
                root |-> IF root = 0 THEN n ELSE root, ph |-> FALSE]
        st1 == [st EXCEPT !.heap = Append(@, res)]
        st2 == InitLinks(st1, n, resolved, data # "", 1)
    IN [st2 EXCEPT !.ret = n]

EmbedOpEmbedsPlaceholder(st, r, rel, value, overrides) ==
    LET h == st.heap
        resolved == Resolve(h[r].server, rel, h[r].params, overrides)[1]
        str == RelStringify(resolved.rel)
        st1 == ResourceOp(st, resolved, h[r].root, value)
        st2 == IF HasStr(resolved, "rel") THEN StaticDocs(st1, r, resolved)
               ELSE unresolvableRel(st1, r, rel)
    IN [st2 EXCEPT !.heap[r].embeds =
          ensureArray(Mark(AddTo(@, str, st1.ret), str, IsArray(resolved)),
                      str, IsArray(resolved)),
                   !.heap[st1.ret].ph = ~HasStr(resolved, "rel")]

EmbedOpParentAsRoot(st, r, rel, value, overrides) ==
    LET h == st.heap
        resolved == Resolve(h[r].server, rel, h[r].params, overrides)[1]
    IN IF HasStr(resolved, "rel")
         THEN LET str == RelStringify(resolved.rel)
                  st1 == ResourceOp(st, resolved, r, value)
                  st2 == StaticDocs(st1, r, resolved)
              IN [st2 EXCEPT !.heap[r].embeds =
                    ensureArray(Mark(AddTo(@, str, st1.ret), str, IsArray(resolved)),
                                str, IsArray(resolved))]
         ELSE LET st1 == unresolvableRel(st, r, rel)
                  st2 == ResourceOp(st1,
                            Assign([server |-> h[r].server, params |-> h[r].params], overrides),
                            r, value)
              IN [st2 EXCEPT !.heap[st2.ret].ph = TRUE]

EmbedOpLastCandidate(st, r, rel, value, overrides) ==
    LET h == st.heap
        resolved == Resolve(h[r].server, rel, h[r].params, overrides)[Len(Resolve(h[r].server, rel, h[r].params, overrides))]
    IN IF HasStr(resolved, "rel")
         THEN LET str == RelStringify(resolved.rel)
                  st1 == ResourceOp(st, resolved, h[r].root, value)
                  st2 == StaticDocs(st1, r, resolved)
              IN [st2 EXCEPT !.heap[r].embeds =
                    ensureArray(Mark(AddTo(@, str, st1.ret), str, IsArray(resolved)),
                                str, IsArray(resolved))]
         ELSE LET st1 == unresolvableRel(st, r, rel)
                  st2 == ResourceOp(st1,
                            Assign([server |-> h[r].server, params |-> h[r].params], overrides),
                            h[r].root, value)
              IN [st2 EXCEPT !.heap[st2.ret].ph = TRUE]

\* Response.prototype.embed(rel, value, overrides) on resource r
EmbedOp(st, r, rel, value, overrides) ==
    LET h == st.heap
        resolved == Resolve(h[r].server, rel, h[r].params, overrides)[1]
    IN IF HasStr(resolved, "rel")
         THEN LET str == RelStringify(resolved.rel)
                  st1 == ResourceOp(st, resolved, h[r].root, value)
                  st2 == StaticDocs(st1, r, resolved)
              IN [st2 EXCEPT !.heap[r].embeds =
                    ensureArray(Mark(AddTo(@, str, st1.ret), str, IsArray(resolved)),
                                str, IsArray(resolved))]
         ELSE LET st1 == unresolvableRel(st, r, rel)
                  st2 == ResourceOp(st1,
                            Assign([server |-> h[r].server, params |-> h[r].params], overrides),
                            h[r].root, value)
              IN [st2 EXCEPT !.heap[st2.ret].ph = TRUE]

\* ---- the calls a handler makes on the response and on the resources embed returned
LinkCalls ==
    { [rel |-> "item", ov |-> EmptyMap],
      [rel |-> "list", ov |-> [array |-> TRUE]],
      [rel |-> "part", ov |-> EmptyMap],
      [rel |-> "ghost", ov |-> EmptyMap],
      [rel |-> "ghost", ov |-> [href |-> "/custom", rel |-> "alt"]] }

EmbedCalls ==
    { [rel |-> "item", ov |-> EmptyMap],
      [rel |-> "list", ov |-> [array |-> TRUE]],
      [rel |-> "ghost", ov |-> EmptyMap],
      [rel |-> "", ov |-> EmptyMap],
      [rel |-> "item", ov |-> [rel |-> "", links |-> <<Self, "item">>]] }

DocsCalls ==
    { [name |-> "api", href |-> "/docs/api/:rel"],
      [name |-> "extra", href |-> "/docs/extra"] }

Values == {"v1"}

\* Response.create(server, href, links, req, res): the root, with its default links
CreateRoot(links) ==
    ResourceOp([heap |-> << >>, log |-> << >>, ret |-> 0],
               [server |-> "api", href |-> "/root", links |-> links, params |-> [id |-> "7"]],
               0, "")

\* The Express response before json(): no call made, no type, an empty body.
NothingSent ==
    [calls |-> << >>, type |-> "",
     body |-> [links |-> NoSlots, embeds |-> NoSlots, fields |-> EmptyMap]]

HalStep(op, r, rel, ov, ret) ==
    [op |-> op, r |-> r, rel |-> rel, ov |-> ov, ret |-> ret,
     before |-> heap, logLen |-> Len(halLog)]

HalInit ==
    \E links \in {<< >>, <<Self>>, <<Self, "item">>} :
        /\ heap = CreateRoot(links).heap
        /\ halLog = CreateRoot(links).log
        /\ nOps = 0
        /\ halLast = [op |-> "create", r |-> 0, rel |-> "", ov |-> EmptyMap, ret |-> 1,
                      before |-> << >>, logLen |-> 0]
        /\ wire = NothingSent

\* res.link(rel, overrides) on a resource the handler holds
Link(r, call) ==
    /\ nOps < MaxOps
    /\ LET st == LinkOp([heap |-> heap, log |-> halLog, ret |-> 0], r, call.rel, call.ov) IN
       /\ heap' = st.heap
       /\ halLog' = st.log
    /\ halLast' = HalStep("link", r, call.rel, call.ov, 0)
    /\ nOps' = nOps + 1
    /\ UNCHANGED <<wire, cfgVars, resVars>>

\* res.embed(rel, value, overrides) on a resource the handler holds
Embed(r, call, value) ==
    /\ nOps < MaxOps
    /\ LET st == EmbedOp([heap |-> heap, log |-> halLog, ret |-> 0], r, call.rel, value,
                         call.ov) IN
       /\ heap' = st.heap
       /\ halLog' = st.log
       /\ halLast' = HalStep("embed", r, call.rel, call.ov, st.ret)
    /\ nOps' = nOps + 1
    /\ UNCHANGED <<wire, cfgVars, resVars>>

\* res.docs(name, href) on a resource the handler holds
Docs(r, call) ==
    /\ nOps < MaxOps
    /\ LET st == DocsOp([heap |-> heap, log |-> halLog, ret |-> 0], r, call.name, call.href) IN
       /\ heap' = st.heap
       /\ halLog' = st.log
    /\ halLast' = HalStep("docs", r, call.name, EmptyMap, 0)
    /\ nOps' = nOps + 1
    /\ UNCHANGED <<wire, cfgVars, resVars>>

HalNext ==
    \/ \E r \in 1..Len(heap), call \in LinkCalls : Link(r, call)
    \/ \E r \in 1..Len(heap), call \in EmbedCalls, value \in Values : Embed(r, call, value)
    \/ \E r \in 1..Len(heap), call \in DocsCalls : Docs(r, call)

ResOff == rIn = <<>> /\ rOut = <<>> /\ rPc = "off"

InitHal == HalInit /\ CfgIdle /\ ResOff

SpecHal == InitHal /\ [][HalNext]_vars

(***************************************************************************)
(* The HAL response tree: the properties                                   *)
(***************************************************************************)
\* The response's root is the first resource created.
Root == 1

Items(set) == UNION { {set[k].items[i] : i \in 1..Len(set[k].items)} : k \in DOMAIN set }

RECURSIVE ReachableFrom(_, _)
ReachableFrom(h, S) ==
    LET S2 == S \cup UNION { Items(h[r].embeds) : r \in S } IN
    IF S2 = S THEN S ELSE ReachableFrom(h, S2)

\* The resources that are serialized: the root and what is embedded under it.
Tree(h) == ReachableFrom(h, {Root})

IsPrefix(a, b) == Len(a) <= Len(b) /\ SubSeq(b, 1, Len(a)) = a

CurieItems(res) == IF Curies \in DOMAIN res.links THEN res.links[Curies].items ELSE << >>

\* The links of a resource under every relation string but curies.
OtherLinks(res) == [k \in DOMAIN res.links \ {Curies} |-> res.links[k]]

\* The first candidate resolve gave the last call, and whether a candidate is well-formed.
LastCandidates ==
    Resolve(halLast.before[halLast.r].server, halLast.rel,
            halLast.before[halLast.r].params, halLast.ov)
WellFormed(c) == HasStr(c, "rel") /\ HrefDefined(c)

\* C4: curie links sit on the root only and the root has at most one per
\* documentation name; a docs call, on the root or on any other resource, leaves
\* the name present at the root, adding one curie link there when it was missing
\* and none when it was present, and changes no other resource.
C4_OneCuriePerNameAtRoot ==
    /\ \A r \in 1..Len(heap) :
          /\ r # Root => Curies \notin DOMAIN heap[r].links
          /\ \A i, j \in 1..Len(CurieItems(heap[r])) :
                CurieItems(heap[r])[i].name = CurieItems(heap[r])[j].name => i = j
    /\ halLast.op = "docs" =>
          /\ HasCurie(heap[Root], halLast.rel)
          /\ Len(CurieItems(heap[Root])) =
                Len(CurieItems(halLast.before[Root]))
                  + (IF HasCurie(halLast.before[Root], halLast.rel) THEN 0 ELSE 1)
          /\ \A r \in 2..Len(heap) : heap[r] = halLast.before[r]

\* C4: docs was called on an embedded resource with a name the root already had.
C4_Witness ==
    /\ halLast.op = "docs"
    /\ halLast.r # Root
    /\ halLast.r \in Tree(heap)
    /\ HasCurie(halLast.before[Root], halLast.rel)
    /\ Len(CurieItems(heap[Root])) >= 2

\* C5 as claimed: an embed whose first candidate lacks a relation or an href returns
\* a resource and leaves the parent's embeds unchanged, the resource in no embeds.
C5_EmbedWithoutRelOrHrefNotEmbedded ==
    (halLast.op = "embed" /\ ~WellFormed(LastCandidates[1])) =>
        /\ halLast.ret \in 1..Len(heap)
        /\ heap[halLast.r].embeds = halLast.before[halLast.r].embeds
        /\ \A r \in 1..Len(heap) : halLast.ret \notin Items(heap[r].embeds)

\* C5 as amended: an embed whose first candidate has no relation returns a new
\* resource, logs one line and leaves every embeds mapping unchanged, the resource
\* in none of them; an embed whose first candidate has a relation, with or without
\* an href, appends the new resource to the parent's slot for that relation string.
C5_EmbedWithoutRelNotEmbedded ==
    halLast.op = "embed" =>
        LET c == LastCandidates[1]
            r == halLast.r
            b == halLast.before
        IN /\ halLast.ret = Len(b) + 1
           /\ halLast.ret = Len(heap)
           /\ ~HasStr(c, "rel") =>
                 /\ \A t \in 1..Len(b) : heap[t].embeds = b[t].embeds
                 /\ \A t \in 1..Len(heap) : halLast.ret \notin Items(heap[t].embeds)
                 /\ Len(halLog) = halLast.logLen + 1
           /\ HasStr(c, "rel") =>
                 /\ c.rel \in DOMAIN heap[r].embeds
                 /\ heap[r].embeds[c.rel].items =
                       Append(IF c.rel \in DOMAIN b[r].embeds THEN b[r].embeds[c.rel].items
                              ELSE << >>, halLast.ret)
                 /\ Len(halLog) = halLast.logLen

\* C5: an embed with a falsy relation returned a resource that is embedded nowhere.
C5_Witness ==
    /\ halLast.op = "embed"
    /\ halLast.rel = ""
    /\ ~HasStr(LastCandidates[1], "rel")
    /\ halLast.ret = Len(heap)
    /\ heap[halLast.ret].ph
    /\ halLast.before[halLast.r].embeds # NoSlots
    /\ heap[halLast.r].embeds = halLast.before[halLast.r].embeds

\* The last call was made on a resource outside the tree, or was an embed that
\* returned a placeholder.
OnPlaceholder ==
    \/ halLast.op \in {"link", "embed", "docs"} /\ halLast.r \notin Tree(halLast.before)
    \/ halLast.op = "embed" /\ heap[halLast.ret].ph

\* C6 as claimed: a placeholder holds no reference to the root, and neither its
\* construction nor any call made on it changes the links or embeds of a resource
\* of the tree.
C6_PlaceholderDetached ==
    /\ \A p \in 1..Len(heap) : heap[p].ph => heap[p].root # Root
    /\ OnPlaceholder =>
          \A t \in Tree(halLast.before) :
              /\ heap[t].links = halLast.before[t].links
              /\ heap[t].embeds = halLast.before[t].embeds

\* C6 as amended: a placeholder refers to the response's root and is never
\* reachable from it; its construction and the calls made on it or below it change,
\* in the tree, nothing but the root's curie links, which only grow.
C6_PlaceholderTouchesOnlyRootCuries ==
    /\ \A p \in 1..Len(heap) : heap[p].ph => (heap[p].root = Root /\ p \notin Tree(heap))
    /\ OnPlaceholder =>
          /\ Tree(heap) = Tree(halLast.before)
          /\ \A t \in Tree(halLast.before) :
                /\ heap[t].embeds = halLast.before[t].embeds
                /\ OtherLinks(heap[t]) = OtherLinks(halLast.before[t])
                /\ IsPrefix(CurieItems(halLast.before[t]), CurieItems(heap[t]))

\* C6: a link call on a placeholder added a curie link to the root.
C6_Witness ==
    /\ halLast.op = "link"
    /\ heap[halLast.r].ph
    /\ Len(CurieItems(heap[Root])) = Len(CurieItems(halLast.before[Root])) + 1

\* C7: a link call logs one line for each candidate lacking a relation or an href
\* and adds nothing for it; the well-formed candidates of the call are appended, in
\* resolution order, to this resource's slot of their relation string; nothing else
\* changes but the root's curie links, and a call without a well-formed candidate
\* changes no resource at all.
C7_LinkSkipsUnresolvable ==
    halLast.op = "link" =>
        LET b == halLast.before
            r == halLast.r
            good == SelectSeq(LastCandidates, WellFormed)
            Added(str) ==
                LET Under(c) == c.rel = str
                    cs == SelectSeq(good, Under)
                IN [i \in 1..Len(cs) |-> TemplateLink(cs[i])]
            Before(str) == IF str \in DOMAIN b[r].links THEN b[r].links[str].items ELSE << >>
        IN /\ Len(halLog) = halLast.logLen + (Len(LastCandidates) - Len(good))
           /\ Len(heap) = Len(b)
           /\ DOMAIN OtherLinks(heap[r]) =
                 DOMAIN OtherLinks(b[r]) \cup {good[i].rel : i \in 1..Len(good)}
           /\ \A str \in DOMAIN OtherLinks(heap[r]) :
                 heap[r].links[str].items = Before(str) \o Added(str)
           /\ \A t \in 1..Len(b) :
                 /\ heap[t].embeds = b[t].embeds
                 /\ t # r => OtherLinks(heap[t]) = OtherLinks(b[t])
           /\ Len(good) = 0 => heap = b

\* C7: one call met a candidate without an href and a well-formed one after it.
C7_Witness ==
    /\ halLast.op = "link"
    /\ halLast.rel = "part"
    /\ Len(LastCandidates) = 2
    /\ ~WellFormed(LastCandidates[1])
    /\ WellFormed(LastCandidates[2])
    /\ Len(halLog) = halLast.logLen + 1
    /\ "api:part" \in DOMAIN heap[halLast.r].links

SlotsNormal(set) ==
    \A k \in DOMAIN set :
        /\ Len(set[k].items) >= 1
        /\ set[k].arr <=> (Len(set[k].items) >= 2 \/ set[k].marked)

\* C8: in every links and embeds mapping a slot is an array exactly when it holds
\* two or more values or a candidate inserted under it was array-type; across a
\* link or embed call every slot keeps its values as a prefix, in order, and a slot
\* that is an array stays one.
C8_ArrayNormalization ==
    /\ \A r \in 1..Len(heap) : SlotsNormal(heap[r].links) /\ SlotsNormal(heap[r].embeds)
    /\ halLast.op \in {"link", "embed"} =>
          \A r \in 1..Len(halLast.before) :
              /\ \A k \in DOMAIN halLast.before[r].links :
                    /\ k \in DOMAIN heap[r].links
                    /\ IsPrefix(halLast.before[r].links[k].items, heap[r].links[k].items)
                    /\ halLast.before[r].links[k].arr => heap[r].links[k].arr
              /\ \A k \in DOMAIN halLast.before[r].embeds :
                    /\ k \in DOMAIN heap[r].embeds
                    /\ IsPrefix(halLast.before[r].embeds[k].items, heap[r].embeds[k].items)
                    /\ halLast.before[r].embeds[k].arr => heap[r].embeds[k].arr

\* C8: a second link under a relation string turned a single value into a
\* two-element array, the first value first, with no array-type candidate involved.
C8_Witness ==
    /\ halLast.op = "link"
    /\ \E k \in DOMAIN halLast.before[halLast.r].links :
          /\ ~halLast.before[halLast.r].links[k].arr
          /\ heap[halLast.r].links[k].arr
          /\ ~heap[halLast.r].links[k].marked
          /\ Len(heap[halLast.r].links[k].items) = 2
          /\ heap[halLast.r].links[k].items[1] = halLast.before[halLast.r].links[k].items[1]

(***************************************************************************)
(* Response.resolve: the relation of a candidate                           *)
(***************************************************************************)
\* What the linker's namespacing makes of a relation under a server, written out.
Namespaced(server, rel) ==
    CASE rel = "" -> ""
      [] rel \in {"item", "list", "part", "ghost", "alt"} /\ server = "api" -> "api:" \o rel
      [] rel \in {"item", "list", "part", "ghost", "alt"} /\ server = "admin" -> "admin:" \o rel
      [] OTHER -> rel

\* C11: when the overrides name a relation, every candidate resolve returns carries
\* that relation verbatim, whatever the server and the templates; when they name
\* none, every candidate carries the relation of the call namespaced under the
\* server the call resolved under.
C11_OverrideRelBypassesNamespacing ==
    rPc = "done" =>
        \A i \in 1..Len(rOut) :
            IF Has(rIn.overrides, "rel")
              THEN rOut[i].rel = rIn.overrides.rel
              ELSE rOut[i].rel = Namespaced(CallServer, rIn.rel)

\* C11: an override relation the server would have namespaced came back verbatim
\* in both candidates of a relation with two templates.
C11_Witness ==
    /\ rPc = "done"
    /\ rIn.server = "api" /\ rIn.rel = "item"
    /\ Has(rIn.overrides, "rel") /\ rIn.overrides.rel = "alt"
    /\ ~Has(rIn.overrides, "server")
    /\ Len(rOut) = 2
    /\ rOut[1].rel = "alt" /\ rOut[2].rel = "alt"
    /\ Namespaced("api", "alt") = "api:alt"

(***************************************************************************)
(* FileConfiguration: initialize and the accessors                         *)
(***************************************************************************)
\* The existence check of initialize found no file, and no handler step followed.
FileWasAbsent == cfgLast.op = "access" /\ cfgLast.got.err

\* C12: when the local file is absent at the existence check, initialize resolves
\* without an error, exactly one line, the file-not-found message, is logged, the
\* configuration is empty and stays empty (no watcher is registered), and get
\* returns null for every key path.
C12_AbsentFileLeavesConfigEmpty ==
    FileWasAbsent =>
        /\ cfgPc = "resolved"
        /\ ~unhandled
        /\ Len(cfgLog) = cfgLast.logLen + 1
        /\ cfgLog[Len(cfgLog)] = "fileNotFound"
        /\ fileConfig = EmptyConfig
        /\ \A k \in KeyPaths : Get(k) = Null
        /\ ~watching
        /\ reads = <<>>

\* C12: initialize found no file; a valid file was written afterwards and the
\* configuration is still empty.
C12_Witness ==
    /\ FileWasAbsent
    /\ cfgPc = "resolved"
    /\ nWrites >= 1
    /\ disk.exists /\ disk.readable /\ disk.text = TextAB1
    /\ Get(<<"a", "b">>) = Null

\* The initial load failed: the blob fetch or the file read gave an error, or the
\* text it gave is not valid JSON.
InitialLoadFailed ==
    /\ cfgLast.op \in {"blob", "load"}
    /\ (cfgLast.got.err \/ cfgLast.got.text \in InvalidTexts)

\* C13: when the initial load fails, initialize rejects, the configuration is empty,
\* nothing is logged for the failure and no watcher is registered; and in every
\* state where initialize has rejected, whatever was written to the file since, the
\* configuration is empty, no watcher is registered, no change event was delivered
\* and no re-read is in flight.
C13_FailedInitialLoadRejects ==
    /\ InitialLoadFailed => (cfgPc = "rejected" /\ Len(cfgLog) = cfgLast.logLen)
    /\ cfgPc = "rejected" =>
          /\ cfgLast.op \in {"blob", "load"}
          /\ fileConfig = EmptyConfig
          /\ \A k \in KeyPaths : Get(k) = Null
          /\ ~watching /\ ~dirty
          /\ nEvents = 0
          /\ reads = <<>>

\* C13: the file held invalid JSON when initialize read it; it was rewritten with
\* valid JSON afterwards and the configuration is still empty.
C13_Witness ==
    /\ InitialLoadFailed
    /\ cfgLast.op = "load"
    /\ cfgLast.got.text = TextTruncated
    /\ cfgPc = "rejected"
    /\ nWrites >= 1
    /\ disk.exists /\ disk.readable /\ disk.text = TextA2
    /\ Get(<<"a">>) = Null

\* initialize took the blob branch and the fetch has settled; no handler step followed.
BlobSettled == cfgLast.op = "blob"

\* What holds in a state once the blob fetch has settled.
BlobOutcome ==
    /\ cfgPc \in {"resolved", "rejected"}
    /\ ~watching /\ ~dirty
    /\ nEvents = 0
    /\ reads = <<>>
    /\ cfgLog = <<>>
    /\ IF ~cfgLast.got.err /\ cfgLast.got.text \in ValidTexts
         THEN cfgPc = "resolved" /\ fileConfig = Decoded(cfgLast.got.text)
         ELSE cfgPc = "rejected" /\ fileConfig = EmptyConfig

\* C14: once the blob fetch has settled, initialize has finished for good (the fetch
\* is not repeated), no watcher is registered, no change event is ever delivered and
\* no re-read ever starts, whatever is written to the local file; the configuration
\* is the parse of the fetched text when that was valid JSON, empty otherwise, and
\* no later step changes it or runs any part of initialize or of a handler again.
C14_BlobFetchedOnceNeverReloaded ==
    /\ [](BlobSettled => BlobOutcome)
    /\ [][BlobSettled => (fileConfig' = fileConfig /\ cfgPc' = cfgPc /\ cfgLast' = cfgLast)]_vars

\* C14: the blob was fetched; the local file was then written twice with other
\* contents and the configuration is still the blob's.
C14_Witness ==
    /\ BlobSettled
    /\ cfgPc = "resolved"
    /\ cfgLast.got.text = TextBX
    /\ fileConfig = Decoded(TextBX)
    /\ nWrites >= 2
    /\ disk.exists /\ disk.readable /\ disk.text = TextA2

\* The configurations that are the parse of one whole valid content.
WholeConfigs == {Decoded(t) : t \in ValidTexts}

\* C20: in every reachable state, with any number of re-reads in flight, the
\* configuration is empty or the parse of one whole valid content, and get reads
\* every key path from that one content; a step that changes the configuration
\* sets it to the parse of the content that very step read without error.
C20_AtomicReplacement ==
    /\ [](/\ fileConfig \in {EmptyConfig} \cup WholeConfigs
          /\ \E c \in {EmptyConfig} \cup WholeConfigs :
                \A k \in KeyPaths : Get(k) = getVal(k, c))
    /\ [][fileConfig' # fileConfig =>
            /\ cfgLast'.op \in {"blob", "load", "reloadOk"}
            /\ ~cfgLast'.got.err
            /\ cfgLast'.got.text \in ValidTexts
            /\ fileConfig' = Decoded(cfgLast'.got.text)]_vars

\* C20: two re-reads hold two different contents while the configuration is a third.
C20_Witness ==
    /\ Len(reads) = 2
    /\ reads[1].phase = "read" /\ reads[2].phase = "read"
    /\ ~reads[1].got.err /\ reads[1].got.text = TextA2
    /\ ~reads[2].got.err /\ reads[2].got.text = TextBX
    /\ fileConfig = Decoded(TextAB1)
    /\ Get(<<"a", "b">>) = JNum(1)

(***************************************************************************)
(* JSON.stringify and FileConfiguration.getString                          *)
(*                                                                         *)
(* A string getString returns is either a string value of the              *)
(* configuration, returned as it is, or a JSON text, held as its sequence  *)
(* of tokens: [t |-> "text", toks |-> ...].                                 *)
(***************************************************************************)
NumTok(n) == CASE n = 1 -> "1" [] n = 2 -> "2"

Quote(s) == CASE s = "a" -> "\"a\"" [] s = "b" -> "\"b\"" [] s = "x" -> "\"x\""

\* An object of the model keeps no insertion order: its members are written in this one.
KeyOrder == <<"a", "b", "x">>

RECURSIVE JSONstringify(_), StringifyMembers(_, _, _)
\* JSON.stringify(val): the tokens of the text; a value JSON.parse built has no cycle
JSONstringify(val) ==
    CASE val.t = "num" -> <<NumTok(val.n)>>
      [] val.t = "str" -> <<Quote(val.s)>>
      [] val.t = "null" -> <<"null">>
      [] val.t = "obj" -> <<"{">> \o StringifyMembers(val.m, 1, TRUE) \o <<"}">>

\* the members from position i of KeyOrder on, a comma before all but the first
StringifyMembers(m, i, first) ==
    IF i > Len(KeyOrder) THEN << >>
    ELSE IF KeyOrder[i] \notin DOMAIN m THEN StringifyMembers(m, i + 1, first)
    ELSE (IF first THEN << >> ELSE <<",">>)
         \o <<Quote(KeyOrder[i]), ":">> \o JSONstringify(m[KeyOrder[i]])
         \o StringifyMembers(m, i + 1, FALSE)

GetStringStringifiesNull(key) ==
    LET val == getVal(key, fileConfig) IN
    IF val.t # "str"
      THEN [t |-> "text", toks |-> JSONstringify(val)]
      ELSE val

\* FileConfiguration.getString(key)
GetString(key) ==
    LET val == getVal(key, fileConfig) IN
    IF val.t # "str" /\ val # Null
      THEN [t |-> "text", toks |-> JSONstringify(val)]
      ELSE val

\* The JSON text of each non-string value the contents hold, written out by hand.
TextOf(val) ==
    CASE val = JNum(1) -> <<"1">>
      [] val = JNum(2) -> <<"2">>
      [] val = JObj(EmptyMap) -> <<"{", "}">>
      [] val = JObj([b |-> JNum(1)]) -> <<"{", "\"b\"", ":", "1", "}">>

C18_RootReference ==
    /\ heap[Root].root = Root
    /\ \A r \in Tree(heap) : heap[r].root = Root
    /\ halLast.op \in {"link", "embed", "docs"} =>
          \A r \in 1..Len(halLast.before) : heap[r].root = halLast.before[r].root

\* C18: a resource was embedded in an embedded resource, two levels below the
\* root, and refers to the root.
C18_Witness ==
    /\ halLast.op = "embed"
    /\ halLast.r # Root
    /\ halLast.r \in Items(heap[Root].embeds)
    /\ halLast.ret \in Items(heap[halLast.r].embeds)
    /\ heap[halLast.ret].root = Root
    /\ heap[halLast.r].root = Root

\* The number of values held by the slots of a links or embeds mapping.
RECURSIVE CountItems(_, _)
CountItems(set, keys) ==
    IF keys = {} THEN 0
    ELSE LET k == CHOOSE x \in keys : TRUE
         IN Len(set[k].items) + CountItems(set, keys \ {k})

NumEmbeds(res) == CountItems(res.embeds, DOMAIN res.embeds)
NumLinks(res) == CountItems(res.links, DOMAIN res.links \ {Curies})

\* C19: when resolve gives two or more candidates, one embed call creates one
\* resource, built from the first candidate (its params and server are that
\* candidate's), and registers exactly that one resource, once, under the first
\* candidate's relation string and nothing under any other, while one link call
\* adds one link entry for each candidate that has a relation and an href.
C19_EmbedFirstCandidateLinkAll ==
    (halLast.op \in {"link", "embed"} /\ Len(LastCandidates) >= 2) =>
        LET b == halLast.before
            r == halLast.r
        IN /\ halLast.op = "embed" =>
                 /\ Len(heap) = Len(b) + 1
                 /\ NumEmbeds(heap[r]) <= NumEmbeds(b[r]) + 1
                 /\ HasStr(LastCandidates[1], "rel") =>
                       /\ NumEmbeds(heap[r]) = NumEmbeds(b[r]) + 1
                       /\ halLast.ret \in Items(heap[r].embeds)
                       /\ heap[halLast.ret].params = LastCandidates[1].params
                       /\ heap[halLast.ret].server = LastCandidates[1].server
                 /\ \A t \in 1..Len(b) : t # r => heap[t].embeds = b[t].embeds
           /\ halLast.op = "link" =>
                 /\ NumLinks(heap[r]) =
                       NumLinks(b[r]) + Len(SelectSeq(LastCandidates, WellFormed))
                 /\ Len(heap) = Len(b)

\* C19: an embed of a relation with two templates whose candidates differ in their
\* params embedded one resource, with the first candidate's params.
C19_Witness ==
    /\ halLast.op = "embed"
    /\ halLast.rel = "item"
    /\ Len(LastCandidates) = 2
    /\ WellFormed(LastCandidates[1]) /\ WellFormed(LastCandidates[2])
    /\ LastCandidates[1].params # LastCandidates[2].params
    /\ NumEmbeds(heap[halLast.r]) = NumEmbeds(halLast.before[halLast.r]) + 1
    /\ heap[halLast.ret].params = LastCandidates[1].params

\* C19: a link of the same relation added both candidates.
C19_LinkWitness ==
    /\ halLast.op = "link"
    /\ halLast.rel = "item"
    /\ Len(LastCandidates) = 2
    /\ NumLinks(heap[halLast.r]) = NumLinks(halLast.before[halLast.r]) + 2

(***************************************************************************)
(* Finalization and filter                                                 *)
(*                                                                         *)
(* json() is bound to the Express response, which carries the root's       *)
(* Response.Private; Response.filter takes any resource. The body handed   *)
(* to Express is the root's halson resource: its links, its embeds (the    *)
(* embedded resources by identity, as the heap holds them at that moment)  *)
(* and the fields Object.assign has merged into it.                        *)
(***************************************************************************)
HalJson == "application/hal+json"

\* The data a handler passes to json().
JsonData == {EmptyMap, [total |-> "2"], [total |-> "3", page |-> "1"]}

JsonLinksAsIs(links) == links

\* ensureArray(_private(this).hal._links, Rel.Curies, true)
JsonLinks(links) == ensureArray(links, Curies, TRUE)

\* Response.prototype.json(original, data)
Json(data) ==
    /\ nOps < MaxOps
    /\ LET links == JsonLinks(heap[Root].links) IN
       /\ heap' = [heap EXCEPT ![Root].links = links]
       /\ wire' = [calls |-> wire.calls \o <<"type", "json">>,
                   type |-> HalJson,
                   body |-> [links |-> links,
                             embeds |-> heap[Root].embeds,
                             fields |-> Assign(wire.body.fields, data)]]
    /\ halLast' = HalStep("json", Root, "", data, 0)
    /\ nOps' = nOps + 1
    /\ UNCHANGED <<halLog, cfgVars, resVars>>

\* The predicates of a Response.Filter, by name: on a link object, on an embedded resource.
LinkPred(p, link) ==
    CASE p = "notRaw" -> link.href # "/item/7/raw"
      [] p = "never" -> FALSE

EmbedPred(p, h, id) ==
    CASE p = "hasSelf" -> Self \in DOMAIN h[id].links
      [] p = "never" -> FALSE

\* The filters a caller passes: either predicate may be left out.
FilterSpecs ==
    { EmptyMap,
      [links |-> "notRaw"],
      [embeds |-> "hasSelf"],
      [links |-> "never", embeds |-> "never"] }

RECURSIVE Unselected(_, _, _)
\* the values at the positions from i on that are not in sel, in order
Unselected(items, sel, i) ==
    IF i > Len(items) THEN << >>
    ELSE (IF i \in sel THEN << >> ELSE <<items[i]>>) \o Unselected(items, sel, i + 1)

\* halson removeLinks / removeEmbeds(rel, filterCallback): the slot becomes the array
\* of the values the callback does not select; sel holds the positions it selects
removeWhere(set, rel, sel) ==
    IF rel \notin DOMAIN set THEN set
    ELSE [set EXCEPT ![rel] = [@ EXCEPT !.arr = TRUE, !.items = Unselected(@, sel, 1)]]

\* link => !filter.links(link) and embed => !filter.embeds(embed): the positions of
\* a slot they select
RejectedLinks(slot, p) == {i \in 1..Len(slot.items) : ~LinkPred(p, slot.items[i])}
RejectedEmbeds(slot, p, h) == {i \in 1..Len(slot.items) : ~EmbedPred(p, h, slot.items[i])}

FilterOpCuriesToo(st, r, f) ==
    LET h == st.heap
        links == IF Has(f, "links")
                   THEN [rel \in DOMAIN h[r].links |->
                           removeWhere(h[r].links, rel,
                                       RejectedLinks(h[r].links[rel], f.links))[rel]]
                   ELSE h[r].links
        embeds == IF Has(f, "embeds")
                    THEN [rel \in DOMAIN h[r].embeds |->
                            removeWhere(h[r].embeds, rel,
                                        RejectedEmbeds(h[r].embeds[rel], f.embeds, h))[rel]]
                    ELSE h[r].embeds
    IN [st EXCEPT !.heap[r].links = links, !.heap[r].embeds = embeds]

\* Response.filter(response, filter) on resource r
FilterOp(st, r, f) ==
    LET h == st.heap
        links == IF Has(f, "links")
                   THEN [rel \in DOMAIN h[r].links |->
                           IF rel # Curies
                             THEN removeWhere(h[r].links, rel,
                                              RejectedLinks(h[r].links[rel], f.links))[rel]
                             ELSE h[r].links[rel]]
                   ELSE h[r].links
        embeds == IF Has(f, "embeds")
                    THEN [rel \in DOMAIN h[r].embeds |->
                            removeWhere(h[r].embeds, rel,
                                        RejectedEmbeds(h[r].embeds[rel], f.embeds, h))[rel]]
                    ELSE h[r].embeds
    IN [st EXCEPT !.heap[r].links = links, !.heap[r].embeds = embeds]

\* Response.filter(response, filter) called by a handler
Filter(r, f) ==
    /\ nOps < MaxOps
    /\ heap' = FilterOp([heap |-> heap, log |-> halLog, ret |-> 0], r, f).heap
    /\ halLast' = HalStep("filter", r, "", f, 0)
    /\ nOps' = nOps + 1
    /\ UNCHANGED <<halLog, wire, cfgVars, resVars>>

ResponseNext ==
    \/ \E r \in 1..Len(heap), call \in LinkCalls : Link(r, call)
    \/ \E r \in 1..Len(heap), call \in EmbedCalls, value \in Values : Embed(r, call, value)
    \/ \E r \in 1..Len(heap), call \in DocsCalls : Docs(r, call)
    \/ \E r \in 1..Len(heap), f \in FilterSpecs : Filter(r, f)
    \/ \E data \in JsonData : Json(data)

SpecResponse == InitHal /\ [][ResponseNext]_vars

(***************************************************************************)
(* Finalization and filter: the properties                                 *)
(***************************************************************************)
\* C15: after json(data), the last two calls on the Express response are type, with
\* the HAL+JSON media type, and then json; in the body the curie slot, when the
\* root has one, is an array holding the root's curie links, also when there is
\* one; every other links slot and the embeds are the root's as they were; and every
\* field of data is in the body with data's value. The call changes nothing else.
C15_JsonFinalizes ==
    halLast.op = "json" =>
        LET b == halLast.before
            data == halLast.ov
            n == Len(wire.calls)
        IN /\ n >= 2 /\ wire.calls[n - 1] = "type" /\ wire.calls[n] = "json"
           /\ wire.type = "application/hal+json"
           /\ DOMAIN wire.body.links = DOMAIN b[Root].links
           /\ Curies \in DOMAIN b[Root].links =>
                 /\ wire.body.links[Curies].arr
                 /\ wire.body.links[Curies].items = b[Root].links[Curies].items
                 /\ Len(wire.body.links[Curies].items) >= 1
           /\ \A k \in DOMAIN b[Root].links \ {Curies} :
                 wire.body.links[k] = b[Root].links[k]
           /\ wire.body.embeds = b[Root].embeds
           /\ \A k \in DOMAIN data : k \in DOMAIN wire.body.fields /\ wire.body.fields[k] = data[k]
           /\ heap[Root].links = wire.body.links
           /\ heap[Root].embeds = wire.body.embeds
           /\ Len(heap) = Len(b)
           /\ \A r \in 2..Len(b) : heap[r] = b[r]

\* C15: json was called with data on a root holding one curie link as a single
\* value, other links and an embedded resource; the body has the curie in an array.
C15_Witness ==
    /\ halLast.op = "json"
    /\ halLast.ov = [total |-> "2"]
    /\ Curies \in DOMAIN halLast.before[Root].links
    /\ ~halLast.before[Root].links[Curies].arr
    /\ Len(halLast.before[Root].links[Curies].items) = 1
    /\ wire.body.links[Curies].arr
    /\ Len(wire.body.links[Curies].items) = 1
    /\ DOMAIN wire.body.links # {Curies}
    /\ wire.body.embeds # NoSlots
    /\ wire.body.fields = [total |-> "2"]

\* The values of a slot that satisfy a predicate of the filter, by position.
KeptLinks(slot, p) == {i \in 1..Len(slot.items) : LinkPred(p, slot.items[i])}
KeptEmbeds(slot, p, h) == {i \in 1..Len(slot.items) : EmbedPred(p, h, slot.items[i])}

\* C16: after filter(response, f): when f has a link predicate, every link left
\* under a relation string other than curies satisfies it and every link that
\* satisfied it is still there (each slot holds as many values as satisfied it, no
\* relation string is added or dropped); the curie slot is as it was; the same for
\* the embeds and the embed predicate; a mapping whose predicate is left out is
\* unchanged; no other resource changes.
C16_FilterKeepsExactlyTheMatching ==
    halLast.op = "filter" =>
        LET b == halLast.before
            r == halLast.r
            f == halLast.ov
        IN /\ IF Has(f, "links")
                THEN /\ DOMAIN heap[r].links = DOMAIN b[r].links
                     /\ \A k \in DOMAIN b[r].links \ {Curies} :
                           /\ \A i \in 1..Len(heap[r].links[k].items) :
                                 LinkPred(f.links, heap[r].links[k].items[i])
                           /\ \A i \in KeptLinks(b[r].links[k], f.links) :
                                 \E j \in 1..Len(heap[r].links[k].items) :
                                     heap[r].links[k].items[j] = b[r].links[k].items[i]
                           /\ Len(heap[r].links[k].items) =
                                 Cardinality(KeptLinks(b[r].links[k], f.links))
                     /\ Curies \in DOMAIN b[r].links =>
                           heap[r].links[Curies] = b[r].links[Curies]
                ELSE heap[r].links = b[r].links
           /\ IF Has(f, "embeds")
                THEN /\ DOMAIN heap[r].embeds = DOMAIN b[r].embeds
                     /\ \A k \in DOMAIN b[r].embeds :
                           /\ \A i \in 1..Len(heap[r].embeds[k].items) :
                                 EmbedPred(f.embeds, b, heap[r].embeds[k].items[i])
                           /\ \A i \in KeptEmbeds(b[r].embeds[k], f.embeds, b) :
                                 \E j \in 1..Len(heap[r].embeds[k].items) :
                                     heap[r].embeds[k].items[j] = b[r].embeds[k].items[i]
                           /\ Len(heap[r].embeds[k].items) =
                                 Cardinality(KeptEmbeds(b[r].embeds[k], f.embeds, b))
                ELSE heap[r].embeds = b[r].embeds
           /\ Len(heap) = Len(b)
           /\ \A t \in 1..Len(b) : t # r => heap[t] = b[t]

\* C16: a filter with only a link predicate removed one of two links under a
\* relation string and kept the other, and kept a curie link and the embeds.
C16_Witness ==
    /\ halLast.op = "filter"
    /\ halLast.ov = [links |-> "notRaw"]
    /\ LET b == halLast.before
           r == halLast.r
       IN /\ "api:item" \in DOMAIN b[r].links
          /\ Len(b[r].links["api:item"].items) = 2
          /\ Len(heap[r].links["api:item"].items) = 1
          /\ heap[r].links["api:item"].items[1].href = "/item/7"
          /\ Curies \in DOMAIN heap[r].links
          /\ heap[r].links[Curies] = b[r].links[Curies]
          /\ b[r].embeds # NoSlots
          /\ heap[r].embeds = b[r].embeds

\* C16: a filter whose predicates nothing satisfies emptied the links and the
\* embeds of the root and left its curie links.
C16_NeverWitness ==
    /\ halLast.op = "filter"
    /\ halLast.r = Root
    /\ halLast.ov = [links |-> "never", embeds |-> "never"]
    /\ Items(halLast.before[Root].embeds) # {}
    /\ Items(heap[Root].embeds) = {}
    /\ Len(CurieItems(heap[Root])) >= 1

=============================================================================
